---- MODULE Spec2Model ----
(***************************************************************************)
(* Model of final1.py: the results store (results.csv), the attempt        *)
(* recorder of animal_page and the trend aggregation of dashboard_page.    *)
(*                                                                         *)
(* A text is a sequence of one-character strings, so that str.lower(),     *)
(* CSV formatting and CSV parsing are computed character by character.     *)
(* A file is [exists, lines]; a line is a sequence of fields.              *)
(***************************************************************************)
EXTENDS Integers, Sequences, FiniteSets, TLC

VARIABLES
    file,               \* results.csv on disk
    now,                \* the wall clock, in ticks since StartDate 00:00
    test_attempts,      \* st.session_state.test_attempts
    feedback,           \* the last message the page showed
    heard,              \* what recognize_google did in the last interaction
    selected,           \* the animal selected in the last interaction
    record,             \* the last record animal_page built
    saved,              \* history: the records save_to_csv was given, in the order the calls were made (completed, for concurrent sessions)
    results,            \* the DataFrame load_results() returned last
    time_filter,        \* dashboard_page: the granularity chosen
    selected_category,  \* dashboard_page: the category filter chosen
    trend_data,         \* dashboard_page: the grouped sums
    totals,             \* dashboard_page: total_attempts, total_correct, total_incorrect
    pc,                 \* concurrent sessions: position inside save_to_csv
    df,                 \* concurrent sessions: the local df of save_to_csv
    rec,                \* concurrent sessions: the argument of save_to_csv
    lost                \* history: sessions holding a stale read, and the writes made from one

vars == <<file, now, test_attempts, feedback, heard, selected, record, saved,
          results, time_filter, selected_category, trend_data, totals,
          pc, df, rec, lost>>

appVars == <<test_attempts, feedback, heard, selected, record>>
dashVars == <<time_filter, selected_category, trend_data, totals>>
raceVars == <<pc, df, rec, lost>>

----------------------------------------------------------------------------
(* Bounds *)

MaxRows == 2          \* rows the store may hold in the sequential model
MaxNow == 2           \* the clock stops advancing here
TicksPerDay == 2      \* clock resolution: ticks in one calendar day
MaxStoredRows == 2    \* rows of the stored table the dashboard is run on
NumProbeDays == 70    \* consecutive days the two-row tables of the period model span
MaxRaceSaves == 3     \* save_to_csv calls made in the concurrent model

----------------------------------------------------------------------------
(* Texts *)

UpperToLower ==
    [c \in {"A", "C", "I", "L", "N", "O", "W"} |->
        CASE c = "A" -> "a" [] c = "C" -> "c" [] c = "I" -> "i"
          [] c = "L" -> "l" [] c = "N" -> "n" [] c = "O" -> "o"
          [] c = "W" -> "w"]

LowerChar(c) == IF c \in DOMAIN UpperToLower THEN UpperToLower[c] ELSE c

\* str.lower()
Lower(t) == [i \in 1..Len(t) |-> LowerChar(t[i])]

T_Lion == <<"L", "i", "o", "n">>
T_Cow == <<"C", "o", "w">>
T_All == <<"A", "l", "l">>
T_farm == <<"f", "a", "r", "m", " ", "a", "n", "i", "m", "a", "l">>
T_sea == <<"s", "e", "a", " ", "c", "r", "e", "a", "t", "u", "r", "e">>
T_bird == <<"b", "i", "r", "d">>
T_wild == <<"w", "i", "l", "d", " ", "a", "n", "i", "m", "a", "l">>
T_jungle == <<"j", "u", "n", "g", "l", "e", " ", "a", "n", "i", "m", "a", "l">>

\* the category each animal page is opened with
PageCategories == {T_farm, T_sea, T_bird, T_wild, T_jungle}

\* animal_dataset.csv as loaded: name and category as written in the file
animal_data ==
    { [animal_name |-> T_Lion,
       animal_category |-> <<"W", "i", "l", "d", " ", "A", "n", "i", "m", "a", "l">>],
      [animal_name |-> T_Cow,
       animal_category |-> <<"F", "a", "r", "m", " ", "A", "n", "i", "m", "a", "l">>] }

get_animal_details(category) ==
    { a \in animal_data : Lower(a.animal_category) = Lower(category) }

\* what recognize_google may return as a transcript
Transcripts ==
    { <<"l", "i", "o", "n">>, <<"L", "I", "O", "N">>, <<"l", "i", "n", "e">>,
      <<"l", "i", "o", "n", " ">>, <<>> }

\* the two exceptions recognize_speech catches
Failures == { <<"UnknownValueError">>, <<"RequestError">> }

None == <<"None">>

----------------------------------------------------------------------------
(* Calendar: datetime.date *)

IsLeap(y) == (y % 4 = 0) /\ ((y % 100 # 0) \/ (y % 400 = 0))

DaysInMonth(y, m) ==
    IF m = 2 THEN (IF IsLeap(y) THEN 29 ELSE 28)
    ELSE IF m \in {4, 6, 9, 11} THEN 30 ELSE 31

DaysBeforeYear(y) ==
    (y - 1) * 365 + ((y - 1) \div 4) - ((y - 1) \div 100) + ((y - 1) \div 400)

\* days of a common year that precede each month
DaysBeforeMonthTable == <<0, 31, 59, 90, 120, 151, 181, 212, 243, 273, 304, 334>>

DaysBeforeMonth(y, m) ==
    DaysBeforeMonthTable[m] + (IF m > 2 /\ IsLeap(y) THEN 1 ELSE 0)

Date(y, m, d) == [year |-> y, month |-> m, day |-> d]

ToOrdinal(d) == DaysBeforeYear(d.year) + DaysBeforeMonth(d.year, d.month) + d.day

FromOrdinal(n) ==
    LET y == CHOOSE yy \in 2020..2030 :
                 DaysBeforeYear(yy) < n /\ n <= DaysBeforeYear(yy + 1)
        r == n - DaysBeforeYear(y)
        m == CHOOSE mm \in 1..12 :
                 /\ DaysBeforeMonth(y, mm) < r
                 /\ r <= DaysBeforeMonth(y, mm) + DaysInMonth(y, mm)
    IN Date(y, m, r - DaysBeforeMonth(y, m))

\* date.weekday(): Monday is 0
Weekday(d) == (ToOrdinal(d) + 6) % 7

\* the day on which the clock reads 0: Sunday 2023-12-31
StartDate == Date(2023, 12, 31)

\* datetime.now().date() at clock value t
DateAt(t) == FromOrdinal(ToOrdinal(StartDate) + (t \div TicksPerDay))

----------------------------------------------------------------------------
(* Cells: the values a dict or a DataFrame holds, tagged with their type *)

IntCell(n) == [type |-> "int", val |-> n]
FloatCell(n) == [type |-> "float", val |-> n]
StrCell(t) == [type |-> "str", val |-> t]
DateCell(d) == [type |-> "date", val |-> d]
NaN == [type |-> "nan", val |-> 0]

\* datetime.now().timestamp() at clock value t
TimestampAt(t) == FloatCell(t)

----------------------------------------------------------------------------
(* CSV text: DataFrame.to_csv(index=False) and pd.read_csv *)

Digits == <<"0", "1", "2", "3", "4", "5", "6", "7", "8", "9">>

IsDigit(c) == \E k \in 1..10 : Digits[k] = c
DigitValue(c) == (CHOOSE k \in 1..10 : Digits[k] = c) - 1

RECURSIVE FormatInt(_)
FormatInt(n) ==
    IF n < 10 THEN <<Digits[n + 1]>>
    ELSE FormatInt(n \div 10) \o <<Digits[(n % 10) + 1]>>

RECURSIVE ParseInt(_)
ParseInt(t) ==
    IF Len(t) = 0 THEN 0
    ELSE ParseInt(SubSeq(t, 1, Len(t) - 1)) * 10 + DigitValue(t[Len(t)])

RECURSIVE ZeroPad(_, _)
ZeroPad(t, w) == IF Len(t) >= w THEN t ELSE ZeroPad(<<"0">> \o t, w)

\* date.isoformat(), which str(date) returns
IsoFormat(d) ==
    ZeroPad(FormatInt(d.year), 4) \o <<"-">> \o ZeroPad(FormatInt(d.month), 2)
        \o <<"-">> \o ZeroPad(FormatInt(d.day), 2)

FormatFloatAsInt(n) == FormatInt(n)

\* repr of a float with an integral value
FormatFloat(n) == FormatInt(n) \o <<".", "0">>

FormatCell(c) ==
    CASE c.type = "int" -> FormatInt(c.val)
      [] c.type = "float" -> FormatFloat(c.val)
      [] c.type = "str" -> c.val
      [] c.type = "date" -> IsoFormat(c.val)
      [] c.type = "nan" -> <<>>

IsIntText(t) == Len(t) > 0 /\ \A i \in 1..Len(t) : IsDigit(t[i])

\* digits, a point, digits
IsFloatText(t) ==
    \E k \in 2..(Len(t) - 1) :
        /\ t[k] = "."
        /\ IsIntText(SubSeq(t, 1, k - 1))
        /\ IsIntText(SubSeq(t, k + 1, Len(t)))

\* the integral part; the model's floats have a zero fraction
ParseFloat(t) ==
    IF IsIntText(t) THEN ParseInt(t)
    ELSE ParseInt(SubSeq(t, 1, (CHOOSE k \in 2..(Len(t) - 1) : t[k] = ".") - 1))

\* the default na_values of read_csv that the alphabet can spell
NaValues ==
    { <<>>, <<"N", "A">>, <<"N", "a", "N">>, <<"n", "a", "n">>,
      <<"n", "u", "l", "l">>, <<"N", "U", "L", "L">>, <<"N", "o", "n", "e">>,
      <<"N", "/", "A">>, <<"n", "/", "a">> }

\* read_csv infers one type per column from all of its fields
ColumnType(fields) ==
    IF Len(fields) = 0 THEN "str"
    ELSE IF \A i \in 1..Len(fields) : IsIntText(fields[i]) THEN "int"
    ELSE IF /\ \A i \in 1..Len(fields) :
                  IsIntText(fields[i]) \/ IsFloatText(fields[i]) \/ fields[i] \in NaValues
            /\ \E i \in 1..Len(fields) : fields[i] \notin NaValues
         THEN "float"
    ELSE "str"

ParseCell(t, type) ==
    IF t \in NaValues THEN NaN
    ELSE CASE type = "int" -> IntCell(ParseInt(t))
           [] type = "float" -> FloatCell(ParseFloat(t))
           [] type = "str" -> StrCell(t)

Index(seq, x) == CHOOSE k \in 1..Len(seq) : seq[k] = x
Range(seq) == { seq[k] : k \in 1..Len(seq) }

\* pd.read_csv of a file that exists and has a header line
read_csv(f) ==
    LET columns == f.lines[1]
        body == Tail(f.lines)
        types == [k \in 1..Len(columns) |->
                     ColumnType([i \in 1..Len(body) |-> body[i][k]] \o <<>>)] \o <<>>
        ParseLine(line) ==
            [c \in Range(columns) |->
                ParseCell(line[Index(columns, c)], types[Index(columns, c)])]
    IN [columns |-> columns,
        rows |-> [i \in 1..Len(body) |-> ParseLine(body[i])] \o <<>>]

\* DataFrame.to_csv(path, index=False): the whole file is replaced
to_csv(d) ==
    [exists |-> TRUE,
     lines |-> <<d.columns>> \o
               [i \in 1..Len(d.rows) |->
                   [k \in 1..Len(d.columns) |-> FormatCell(d.rows[i][d.columns[k]])]]]

\* pd.DataFrame([record]): one row, the dict's keys as columns
RecordColumns ==
    <<"child_id", "animal_name", "category", "attempt", "correct", "incorrect",
      "timestamp", "date">>

DataFrameOf(r) == [columns |-> RecordColumns, rows |-> <<r>>]

SeqMinus(seq, S) == SelectSeq(seq, LAMBDA x : x \notin S)

\* pd.concat([a, b], ignore_index=True): columns are united, a's first, and
\* a row has NaN in a column its frame lacks
ConcatPrepend(a, b) ==
    LET columns == a.columns \o SeqMinus(b.columns, Range(a.columns))
        Fill(r) == [c \in Range(columns) |-> IF c \in DOMAIN r THEN r[c] ELSE NaN]
    IN [columns |-> columns,
        rows |-> [i \in 1..Len(b.rows) |-> Fill(b.rows[i])]
                 \o [i \in 1..Len(a.rows) |-> Fill(a.rows[i])]]

concat(a, b) ==
    LET columns == a.columns \o SeqMinus(b.columns, Range(a.columns))
        Fill(r) == [c \in Range(columns) |-> IF c \in DOMAIN r THEN r[c] ELSE NaN]
    IN [columns |-> columns,
        rows |-> [i \in 1..Len(a.rows) |-> Fill(a.rows[i])]
                 \o [i \in 1..Len(b.rows) |-> Fill(b.rows[i])]]

----------------------------------------------------------------------------
(* The results store *)

Absent == [exists |-> FALSE, lines |-> <<>>]

\* pd.DataFrame(columns=[...]).to_csv(...): the header and no rows
HeaderOnly == to_csv([columns |-> RecordColumns, rows |-> <<>>])

EnsureAlwaysCreates(f) == HeaderOnly

\* ensure_results_file: the file afterwards
EnsureFile(f) == IF ~f.exists THEN HeaderOnly ELSE f

\* save_to_csv run without interruption: the file afterwards
SaveFile(f, r) == to_csv(concat(read_csv(EnsureFile(f)), DataFrameOf(r)))

\* load_results: the DataFrame returned
LoadFrame(f) == read_csv(EnsureFile(f))

----------------------------------------------------------------------------
(* The sequential application: one session, one handler at a time *)

Rows(f) == IF Len(f.lines) = 0 THEN <<>> ELSE Tail(f.lines)

NoFrame == [columns |-> <<>>, rows |-> <<>>]

\* a new session: the module-level initialisation of lines 166-172, and
\* nothing computed yet
Fresh ==
    /\ now = 0
    /\ test_attempts = <<>>
    /\ feedback = "none"
    /\ heard = None
    /\ selected = <<>>
    /\ record = <<>>
    /\ saved = <<>>
    /\ results = NoFrame
    /\ time_filter = "none"
    /\ selected_category = None
    /\ trend_data = <<>>
    /\ totals = <<0, 0, 0>>
    /\ pc = <<>>
    /\ df = <<>>
    /\ rec = <<>>
    /\ lost = <<>>

Init ==
    /\ file \in {Absent, HeaderOnly}
    /\ Fresh

\* the clock advances between interactions
Tick ==
    /\ now < MaxNow
    /\ now' = now + 1
    /\ UNCHANGED <<file, appVars, saved, results, dashVars, raceVars>>

\* a call of ensure_results_file
ensure_results_file ==
    /\ file' = EnsureFile(file)
    /\ UNCHANGED <<now, appVars, saved, results, dashVars, raceVars>>

\* a call of load_results
load_results ==
    /\ file' = EnsureFile(file)
    /\ results' = LoadFrame(file)
    /\ UNCHANGED <<now, appVars, saved, dashVars, raceVars>>

RecognizedTextRaw(outcome) == IF outcome \in Failures THEN None ELSE outcome

\* recognize_speech: the lowered transcript, or None after a caught exception
RecognizedText(outcome) == IF outcome \in Failures THEN None ELSE Lower(outcome)

\* the truth value Python gives recognized_text in "if recognized_text:"
Truthy(text) == text # None /\ Len(text) > 0

BoolInt(b) == IF b THEN 1 ELSE 0

BuildRecordSameFlag(name, category, is_correct, t1, t2) ==
    [child_id |-> IntCell(1),
     animal_name |-> StrCell(name),
     category |-> StrCell(category),
     attempt |-> IntCell(1),
     correct |-> IntCell(BoolInt(is_correct)),
     incorrect |-> IntCell(BoolInt(is_correct)),
     timestamp |-> TimestampAt(t1),
     date |-> DateCell(DateAt(t2))]

\* the dict of lines 114-123; t1 and t2 are the clock at the two now() calls
BuildRecord(name, category, is_correct, t1, t2) ==
    [child_id |-> IntCell(1),
     animal_name |-> StrCell(name),
     category |-> StrCell(category),
     attempt |-> IntCell(1),
     correct |-> IntCell(BoolInt(is_correct)),
     incorrect |-> IntCell(BoolInt(~is_correct)),
     timestamp |-> TimestampAt(t1),
     date |-> DateCell(DateAt(t2))]

\* animal_page(category) with the "Try Saying" button pressed
animal_page(category) ==
    LET animals == get_animal_details(category) IN
    IF animals = {}
    THEN /\ feedback' = "no animals"
         /\ UNCHANGED <<file, now, test_attempts, heard, selected, record, saved,
                        results, dashVars, raceVars>>
    ELSE \E a \in animals, outcome \in Transcripts \cup Failures :
           LET selected_animal_name == a.animal_name
               recognized_text == RecognizedText(outcome)
               is_correct == recognized_text = Lower(selected_animal_name)
           IN /\ heard' = outcome
              /\ selected' = <<selected_animal_name>>
              /\ IF Truthy(recognized_text)
                 THEN \E t2 \in {now, now + 1} :
                        LET r == BuildRecord(selected_animal_name, category,
                                             is_correct, now, t2)
                        IN /\ t2 <= MaxNow
                           /\ Len(Rows(file)) < MaxRows
                           /\ test_attempts' = Append(test_attempts,
                                  [animal |-> selected_animal_name,
                                   recognized_text |-> recognized_text,
                                   is_correct |-> is_correct])
                           /\ feedback' = IF is_correct THEN "correct" ELSE "incorrect"
                           /\ record' = <<r>>
                           /\ now' = t2
                           /\ file' = SaveFile(file, r)
                           /\ saved' = Append(saved, r)
                 ELSE /\ feedback' = IF recognized_text = None
                                     THEN "could not understand" ELSE "listening"
                      /\ UNCHANGED <<file, now, test_attempts, record, saved>>
              /\ UNCHANGED <<results, dashVars, raceVars>>

Next ==
    \/ Tick
    \/ ensure_results_file
    \/ load_results
    \/ \E category \in PageCategories : animal_page(category)

Spec == Init /\ [][Next]_vars

----------------------------------------------------------------------------
(* The dashboard: dashboard_page *)

\* pd.to_datetime of an ISO date text: midnight of that day
ParseIsoDate(t) ==
    Date(ParseInt(SubSeq(t, 1, 4)), ParseInt(SubSeq(t, 6, 7)), ParseInt(SubSeq(t, 9, 10)))

to_datetime(c) == IF c.type = "str" THEN DateCell(ParseIsoDate(c.val)) ELSE NaN

AddDays(d, k) == FromOrdinal(ToOrdinal(d) + k)

WeekStartSunday(d) == AddDays(d, 0 - ((Weekday(d) + 1) % 7))

\* to_period('W') is the week that ends on the Sunday on or after the day;
\* start_time is six days before that Sunday
WeekStart(d) == AddDays(AddDays(d, 6 - Weekday(d)), 0 - 6)

\* to_period('M').start_time
MonthStart(d) == Date(d.year, d.month, 1)

\* lines 141-146: the value of the time_period column for one date cell
TimePeriod(filter, c) ==
    LET t == to_datetime(c) IN
    IF t = NaN THEN NaN
    ELSE IF filter = "Daily" THEN t
    ELSE IF filter = "Weekly" THEN DateCell(WeekStart(t.val))
    ELSE DateCell(MonthStart(t.val))

\* the row with the new column time_period
WithTimePeriod(row, key) == ("time_period" :> key) @@ row

KeepAll(row, category) == TRUE

\* lines 138-139: the rows the category filter keeps
Keep(row, category) == category = T_All \/ row.category = StrCell(category)

RECURSIVE ColumnSum(_, _)
\* Series.sum() of an integer column
ColumnSum(rows, c) ==
    IF Len(rows) = 0 THEN 0 ELSE rows[1][c].val + ColumnSum(Tail(rows), c)

RECURSIVE SortDates(_)
\* the group keys in ascending order
SortDates(S) ==
    IF S = {} THEN <<>>
    ELSE LET m == CHOOSE x \in S : \A y \in S : ToOrdinal(x.val) <= ToOrdinal(y.val)
         IN <<m>> \o SortDates(S \ {m})

RECURSIVE FirstSeen(_)
FirstSeen(keys) ==
    IF Len(keys) = 0 THEN <<>>
    ELSE LET front == FirstSeen(SubSeq(keys, 1, Len(keys) - 1))
             last == keys[Len(keys)]
         IN IF last \in Range(front) \/ last = NaN THEN front ELSE Append(front, last)

GroupKeysUnsorted(keys) == FirstSeen(keys)

\* groupby(...) keys: distinct, sorted, rows without a key dropped
GroupKeys(keys) == SortDates(Range(keys) \ {NaN})

\* one row of the grouped frame: the sums over the rows that have the key
GroupRow(rows, key) ==
    LET members == SelectSeq(rows, LAMBDA row : row.time_period = key)
    IN [time_period |-> key,
        attempt |-> ColumnSum(members, "attempt"),
        correct |-> ColumnSum(members, "correct"),
        incorrect |-> ColumnSum(members, "incorrect")]

\* df.groupby('time_period')[['attempt', 'correct', 'incorrect']].sum().reset_index()
GroupBySum(rows) ==
    LET groups == GroupKeys([i \in 1..Len(rows) |-> rows[i].time_period])
    IN [g \in 1..Len(groups) |-> GroupRow(rows, groups[g])] \o <<>>

\* df['category'].unique()
Categories(frame) == { frame.rows[i].category.val : i \in 1..Len(frame.rows) }

TimeFilters == {"Daily", "Weekly", "Monthly"}

\* lines 138-139: df after the category filter
Filtered(frame, category) == SelectSeq(frame.rows, LAMBDA row : Keep(row, category))

\* lines 141-146: df['time_period'] = ... for the chosen granularity
AddTimePeriod(rows, filter) ==
    [i \in 1..Len(rows) |-> WithTimePeriod(rows[i], TimePeriod(filter, rows[i].date))]
        \o <<>>

\* line 148: trend_data
TrendData(frame, filter, category) ==
    GroupBySum(AddTimePeriod(Filtered(frame, category), filter))

\* lines 150-152: total_attempts, total_correct, total_incorrect
Totals(frame, filter, category) ==
    LET rows == AddTimePeriod(Filtered(frame, category), filter)
    IN <<ColumnSum(rows, "attempt"), ColumnSum(rows, "correct"),
         ColumnSum(rows, "incorrect")>>

\* dashboard_page with the sidebar set to some granularity and category
dashboard_page ==
    /\ file' = EnsureFile(file)
    /\ results' = LoadFrame(file)
    /\ IF Len(LoadFrame(file).rows) = 0
       THEN /\ feedback' = "no data"
            /\ UNCHANGED dashVars
       ELSE \E filter \in TimeFilters,
               category \in {T_All} \cup Categories(LoadFrame(file)) :
              /\ time_filter' = filter
              /\ selected_category' = category
              /\ trend_data' = TrendData(LoadFrame(file), filter, category)
              /\ totals' = Totals(LoadFrame(file), filter, category)
              /\ feedback' = "chart"
    /\ UNCHANGED <<now, test_attempts, heard, selected, record, saved, raceVars>>

\* the animals of the catalogue with the category of their page
CatalogueEntries == { <<T_Lion, T_wild>>, <<T_Cow, T_farm>> }

\* the days, counted from StartDate, on which the stored attempts were made
StoredDays == {0, 1, 2}

\* records this program writes: an animal of the catalogue, either outcome,
\* built at the start of one of the days
StoredRecords ==
    { BuildRecord(e[1], e[2], ok, day * TicksPerDay, day * TicksPerDay) :
        e \in CatalogueEntries, ok \in BOOLEAN, day \in StoredDays }

RECURSIVE SeqsUpTo(_, _)
SeqsUpTo(S, n) ==
    IF n = 0 THEN {<<>>}
    ELSE LET shorter == SeqsUpTo(S, n - 1)
         IN shorter \cup { Append(q, x) : q \in { p \in shorter : Len(p) = n - 1 }, x \in S }

TableOf(records) == to_csv([columns |-> RecordColumns, rows |-> records])

\* The store as earlier sessions left it.  Rows need not be in date order:
\* a session builds its record before it saves it, and another session may
\* build and save a later one in between.
InitStored ==
    /\ file \in { TableOf(q) : q \in SeqsUpTo(StoredRecords, MaxStoredRows) }
    /\ Fresh

NextDashboard == dashboard_page

SpecDashboard == InitStored /\ [][NextDashboard]_vars

\* a store of two attempts at the same animal, made on any two days of a
\* span that crosses weeks, months, a year end and a leap day
InitTwoDays ==
    /\ \E d1 \in 0..(NumProbeDays - 1), d2 \in 0..(NumProbeDays - 1) :
          /\ d1 <= d2
          /\ file = TableOf(<<BuildRecord(T_Lion, T_wild, TRUE, d1 * TicksPerDay,
                                          d1 * TicksPerDay),
                              BuildRecord(T_Lion, T_wild, FALSE, d2 * TicksPerDay,
                                          d2 * TicksPerDay)>>)
    /\ Fresh

SpecPeriod == InitTwoDays /\ [][NextDashboard]_vars

----------------------------------------------------------------------------
(* Concurrent sessions: save_to_csv as the three steps it consists of.     *)
(* Each session runs the script in a thread of its own; the file is shared *)
(* and nothing guards it.  A to_csv is taken as one write of the file.     *)

Sessions == {1, 2}

\* the records the sessions save
RaceRecords ==
    { BuildRecord(T_Lion, T_wild, TRUE, 0, 0), BuildRecord(T_Cow, T_farm, FALSE, 0, 0) }

InFlight == { s \in Sessions : pc[s] # "idle" }

InitRace ==
    /\ file \in {Absent, HeaderOnly}
    /\ now = 0
    /\ test_attempts = <<>>
    /\ feedback = "none"
    /\ heard = None
    /\ selected = <<>>
    /\ record = <<>>
    /\ saved = <<>>
    /\ results = NoFrame
    /\ time_filter = "none"
    /\ selected_category = None
    /\ trend_data = <<>>
    /\ totals = <<0, 0, 0>>
    /\ pc = [s \in Sessions |-> "idle"]
    /\ df = [s \in Sessions |-> NoFrame]
    /\ rec = [s \in Sessions |-> <<>>]
    /\ lost = [stale |-> {}, writes |-> 0]

otherVars == <<now, appVars, results, dashVars>>

\* line 124: animal_page calls save_to_csv(record)
save_call(s, r) ==
    /\ pc[s] = "idle"
    /\ Len(saved) + Cardinality(InFlight) < MaxRaceSaves
    /\ pc' = [pc EXCEPT ![s] = "ensure"]
    /\ rec' = [rec EXCEPT ![s] = <<r>>]
    /\ UNCHANGED <<file, df, saved, lost, otherVars>>

\* line 61
save_ensure(s) ==
    /\ pc[s] = "ensure"
    /\ file' = EnsureFile(file)
    /\ pc' = [pc EXCEPT ![s] = "read"]
    /\ UNCHANGED <<df, rec, saved, lost, otherVars>>

\* line 62
save_read(s) ==
    /\ pc[s] = "read"
    /\ df' = [df EXCEPT ![s] = read_csv(file)]
    /\ pc' = [pc EXCEPT ![s] = "write"]
    /\ UNCHANGED <<file, rec, saved, lost, otherVars>>

\* lines 63-64; every other session that has read and not yet written now
\* holds a stale df
save_write(s) ==
    /\ pc[s] = "write"
    /\ file' = to_csv(concat(df[s], DataFrameOf(rec[s][1])))
    /\ saved' = Append(saved, rec[s][1])
    /\ lost' = [stale |-> (lost.stale \ {s}) \cup { t \in Sessions \ {s} : pc[t] = "write" },
                writes |-> lost.writes + (IF s \in lost.stale THEN 1 ELSE 0)]
    /\ pc' = [pc EXCEPT ![s] = "idle"]
    /\ rec' = [rec EXCEPT ![s] = <<>>]
    /\ df' = [df EXCEPT ![s] = NoFrame]
    /\ UNCHANGED otherVars

NextRace ==
    \/ \E s \in Sessions, r \in RaceRecords : save_call(s, r)
    \/ \E s \in Sessions : save_ensure(s)
    \/ \E s \in Sessions : save_read(s)
    \/ \E s \in Sessions : save_write(s)

SpecRace == InitRace /\ [][NextRace]_vars

----------------------------------------------------------------------------
(* Properties of the sequential application *)

IsPrefix(a, b) == Len(a) <= Len(b) /\ SubSeq(b, 1, Len(a)) = a

\* a record as it reads once stored: the date comes back as its ISO text
AsLoaded(r) == [r EXCEPT !.date = StrCell(IsoFormat(r.date.val))]

\* C1: with one writer, load_results() returns exactly the records passed to
\* save_to_csv so far, in call order; no step changes or removes a stored
\* row, and each save_to_csv adds exactly one row.
C1_AppendOnly ==
    /\ [](LoadFrame(file).rows = [i \in 1..Len(saved) |-> AsLoaded(saved[i])])
    /\ [][/\ IsPrefix(Rows(file), Rows(file'))
          /\ Len(saved') # Len(saved) => Len(Rows(file')) = Len(Rows(file)) + 1]_vars

C1_Witness ==
    /\ Len(saved) >= 2
    /\ saved[1] # saved[2]
    /\ Len(LoadFrame(file).rows) = Len(saved)

OutcomeOk(r) ==
    /\ r.attempt = IntCell(1)
    /\ r.correct \in {IntCell(0), IntCell(1)}
    /\ r.incorrect \in {IntCell(0), IntCell(1)}
    /\ r.correct.val + r.incorrect.val = 1

\* C2: every record animal_page builds and every row of the results store
\* has attempt = 1, correct and incorrect in {0, 1} and correct + incorrect = 1.
C2_OutcomeInvariant ==
    /\ \A i \in 1..Len(record) : OutcomeOk(record[i])
    /\ \A i \in 1..Len(LoadFrame(file).rows) : OutcomeOk(LoadFrame(file).rows[i])

C2_Witness ==
    /\ Len(record) = 1
    /\ \E i, j \in 1..Len(LoadFrame(file).rows) :
          /\ LoadFrame(file).rows[i].correct = IntCell(1)
          /\ LoadFrame(file).rows[j].correct = IntCell(0)

CasePairs ==
    { <<"A", "a">>, <<"C", "c">>, <<"I", "i">>, <<"L", "l">>, <<"N", "n">>,
      <<"O", "o">>, <<"W", "w">> }

SameLetter(c, d) == c = d \/ <<c, d>> \in CasePairs \/ <<d, c>> \in CasePairs

\* two texts are equal once case is folded: same length, same letters
FoldEq(a, b) == Len(a) = Len(b) /\ \A i \in 1..Len(a) : SameLetter(a[i], b[i])

\* C3: the attempt recorded for a transcript and a selected animal has
\* correct = 1 and incorrect = 0 exactly when the two texts are equal up to
\* case, and correct = 0 and incorrect = 1 otherwise; nothing is trimmed.
C3_CorrectnessDecision ==
    [][Len(saved') # Len(saved) =>
         LET r == saved'[Len(saved')]
             row == LoadFrame(file').rows[Len(saved')]
         IN /\ row.correct = r.correct /\ row.incorrect = r.incorrect
            /\ IF FoldEq(heard', selected'[1])
               THEN r.correct = IntCell(1) /\ r.incorrect = IntCell(0)
               ELSE r.correct = IntCell(0) /\ r.incorrect = IntCell(1)]_vars

C3_Witness ==
    /\ heard = <<"L", "I", "O", "N">>
    /\ selected = <<T_Lion>>
    /\ Len(record) = 1
    /\ record[1].correct = IntCell(1)
    /\ \E i \in 1..Len(test_attempts) :
          /\ test_attempts[i].recognized_text = <<"l", "i", "o", "n", " ">>
          /\ ~test_attempts[i].is_correct

\* a step of animal_page in which recognize_speech ran
RecognitionStep ==
    \E category \in PageCategories :
        get_animal_details(category) # {} /\ animal_page(category)

\* C4: a failed recognition leaves the results store and the session's
\* attempt list unchanged, and every recognition that returns a text, whatever
\* the text, appends exactly one record to the results store.
C4_RecordPerRecognition ==
    [][RecognitionStep =>
         IF heard' \in Failures
         THEN file' = file /\ test_attempts' = test_attempts
         ELSE Len(Rows(file')) = Len(Rows(file)) + 1]_vars

ExpectedHeader ==
    <<"child_id", "animal_name", "category", "attempt", "correct", "incorrect",
      "timestamp", "date">>

\* C5: ensure_results_file creates the file with exactly the eight-column
\* header and no rows when it is absent and changes nothing when it exists;
\* neither a call of it nor a load changes the stored rows.
C5_IdempotentInit ==
    [][/\ ensure_results_file =>
            /\ ~file.exists => file' = [exists |-> TRUE, lines |-> <<ExpectedHeader>>]
            /\ file.exists => file' = file
            /\ Rows(file') = Rows(file)
       /\ load_results =>
            /\ file.exists => file' = file
            /\ Rows(file') = Rows(file)
            /\ file'.exists /\ file'.lines[1] = ExpectedHeader]_vars

C5_Witness ==
    /\ file.exists
    /\ Len(Rows(file)) >= 2
    /\ results = LoadFrame(file)
    /\ EnsureFile(file) = file

\* the calendar date of a stored timestamp
DateOfTimestamp(ts) == FromOrdinal(ToOrdinal(StartDate) + (ts \div TicksPerDay))

\* C9: in every stored row the date is the calendar date of that row's
\* timestamp, also when the clock passes midnight while the record is built.
C9_DateOfTimestamp ==
    \A i \in 1..Len(LoadFrame(file).rows) :
        LET row == LoadFrame(file).rows[i]
        IN row.date = StrCell(IsoFormat(DateOfTimestamp(row.timestamp.val)))

----------------------------------------------------------------------------
(* Properties of the dashboard *)

RECURSIVE SumOver(_, _)
\* the sum of val(i) over the indices in S
SumOver(S, val) ==
    IF S = {} THEN 0
    ELSE LET i == CHOOSE j \in S : TRUE IN val[i] + SumOver(S \ {i}, val)

\* the stored rows the chosen category filter lets through
Passing ==
    { i \in 1..Len(results.rows) :
        selected_category = T_All \/ results.rows[i].category.val = selected_category }

StoredTotal(c) == SumOver(Passing, [i \in 1..Len(results.rows) |-> results.rows[i][c].val])

BucketTotal(c) == SumOver(1..Len(trend_data), [g \in 1..Len(trend_data) |-> trend_data[g][c]])

\* C6: for every stored table, granularity and category filter, the bucket
\* sums of attempt, correct and incorrect add up to the totals, and both equal
\* the sums over the stored rows of the chosen category alone.
C6_TotalsConsistency ==
    feedback = "chart" =>
        /\ results = LoadFrame(file)
        /\ BucketTotal("attempt") = totals[1] /\ totals[1] = StoredTotal("attempt")
        /\ BucketTotal("correct") = totals[2] /\ totals[2] = StoredTotal("correct")
        /\ BucketTotal("incorrect") = totals[3] /\ totals[3] = StoredTotal("incorrect")

C6_Witness ==
    /\ feedback = "chart"
    /\ selected_category = T_wild
    /\ Len(results.rows) = 2
    /\ Passing = {2}
    /\ Len(trend_data) = 1
    /\ totals = <<1, 1, 0>>

\* the period keys of the rows that pass the filter
PassingKeys == { TimePeriod(time_filter, results.rows[i].date) : i \in Passing }

\* C7: the buckets are strictly ascending by period start, carry no key
\* twice, and are exactly the period keys of the rows that pass the filter.
C7_BucketOrdering ==
    feedback = "chart" =>
        /\ \A g \in 1..(Len(trend_data) - 1) :
              ToOrdinal(trend_data[g].time_period.val)
                  < ToOrdinal(trend_data[g + 1].time_period.val)
        /\ { trend_data[g].time_period : g \in 1..Len(trend_data) } = PassingKeys
        /\ Len(trend_data) = Cardinality(PassingKeys)

\* two buckets, taken from rows stored in descending date order
C7_Witness ==
    /\ feedback = "chart"
    /\ Len(trend_data) = 2
    /\ Len(results.rows) = 2
    /\ ToOrdinal(ParseIsoDate(results.rows[1].date.val))
           > ToOrdinal(ParseIsoDate(results.rows[2].date.val))
    /\ Passing = {1, 2}

\* 2024-01-01 is a Monday
IsMonday(d) == (ToOrdinal(d) - ToOrdinal(Date(2024, 1, 1))) % 7 = 0

\* the key the claim gives a date: the date, the Monday of its week, or the
\* first day of its month
IsKeyOf(key, d, filter) ==
    CASE filter = "Daily" -> key = d
      [] filter = "Weekly" ->
            /\ IsMonday(key)
            /\ ToOrdinal(key) <= ToOrdinal(d)
            /\ ToOrdinal(d) <= ToOrdinal(key) + 6
      [] filter = "Monthly" ->
            key.year = d.year /\ key.month = d.month /\ key.day = 1

SameBucket(d1, d2, filter) ==
    CASE filter = "Daily" -> d1 = d2
      [] filter = "Weekly" ->
            \E k \in 0..6 :
                /\ IsMonday(FromOrdinal(ToOrdinal(d1) - k))
                /\ ToOrdinal(d1) - k <= ToOrdinal(d2)
                /\ ToOrdinal(d2) <= ToOrdinal(d1) - k + 6
      [] filter = "Monthly" -> d1.year = d2.year /\ d1.month = d2.month

\* C8: in a table of two attempts every bucket key is the key of a stored
\* date (the date itself, the Monday of its week, the first of its month),
\* every stored date has its bucket, and the two attempts share one bucket
\* exactly when their dates lie in the same day, week or month.
C8_KeyDerivation ==
    feedback = "chart" =>
        LET d1 == ParseIsoDate(results.rows[1].date.val)
            d2 == ParseIsoDate(results.rows[2].date.val)
            keys == { trend_data[g].time_period.val : g \in 1..Len(trend_data) }
        IN /\ \A key \in keys : IsKeyOf(key, d1, time_filter) \/ IsKeyOf(key, d2, time_filter)
           /\ \E key \in keys : IsKeyOf(key, d1, time_filter)
           /\ \E key \in keys : IsKeyOf(key, d2, time_filter)
           /\ (Len(trend_data) = 1) = SameBucket(d1, d2, time_filter)

\* 2024-01-01 and 2024-01-02 share the weekly bucket 2024-01-01
C8_Witness ==
    /\ feedback = "chart"
    /\ time_filter = "Weekly"
    /\ Len(results.rows) = 2
    /\ results.rows[1].date.val = IsoFormat(Date(2024, 1, 1))
    /\ results.rows[2].date.val = IsoFormat(Date(2024, 1, 2))
    /\ Len(trend_data) = 1
    /\ trend_data[1].time_period = DateCell(Date(2024, 1, 1))
    /\ trend_data[1].attempt = 2

----------------------------------------------------------------------------
(* Properties of concurrent sessions *)

\* C10: when a session writes from a df it read before another session's
\* write, its write wins: the file is what it had read plus its own record,
\* the rows written in between are gone and the store holds fewer rows than
\* save_to_csv calls completed.  As long as no write was made from a stale
\* read, the store holds every saved record, in the order of the writes.
C10_LastWriterWins ==
    /\ [](IF lost.writes = 0
          THEN LoadFrame(file).rows = [i \in 1..Len(saved) |-> AsLoaded(saved[i])]
          ELSE Len(Rows(file)) < Len(saved))
    /\ [][\A s \in Sessions :
            (pc[s] = "write" /\ pc'[s] = "idle" /\ s \in lost.stale) =>
                /\ Rows(file') = Rows(to_csv(df[s])) \o <<Rows(file')[Len(Rows(file'))]>>
                /\ LoadFrame(file').rows[Len(Rows(file'))] = AsLoaded(rec[s][1])
                /\ Len(Rows(file')) = Len(df[s].rows) + 1
                /\ Len(Rows(file')) < Len(saved')]_vars

\* both sessions read the empty table, both wrote, one row is left
C10_Witness ==
    /\ lost.writes = 1
    /\ Len(saved) = 2
    /\ saved[1] # saved[2]
    /\ InFlight = {}
    /\ LoadFrame(file).rows = <<AsLoaded(saved[2])>>

====
